---- MODULE Spec2Model ----
(***************************************************************************)
(* A model of option_bot's Polygon ingestion engine (polygon_utils.py):    *)
(* the paginator's query_all chain with its throttle, the batch generator, *)
(* fetch, and the options-contract fan-out and normalisation.              *)
(*                                                                         *)
(* Time is counted in ticks, TicksPerSecond ticks to the second.  An       *)
(* engine is one PolygonPaginator instance; engine 0 is the instance the   *)
(* caller holds, engines 1.. are the copies the process pool's workers     *)
(* run query_all on.                                                       *)
(***************************************************************************)
EXTENDS Integers, Sequences, FiniteSets, TLC

VARIABLES
    eng,              \* engine id -> the instance's fields and its position in query_all
    chain,            \* engine id -> the page chain upstream holds for the engine's query
    now,              \* the clock, in ticks
    default_payload,  \* the dict object that is query_all's default `payload` argument
    n429,             \* how many 429 answers upstream has given
    caller,           \* what the caller of the operation under study has seen
    game              \* the GameEnvironment instance, its data and its caller's view

vars == <<eng, chain, now, default_payload, n429, caller, game>>

----------------------------------------------------------------------------
(* Bounds of the model *)

MaxPages == 5          \* longest page chain upstream holds
Max429 == 2            \* most 429 answers upstream gives in one run
TicksPerSecond == 2    \* clock resolution
MaxLatency == 1        \* longest response latency, in ticks
MaxThousands == 13     \* clean_results of up to MaxThousands * 1000 + 999 records
MaxFetchPages == 2     \* longest page chain in a whole fetch
MaxPartitions == 2     \* most base dates of an options fan-out
MaxCleanRecords == 4   \* most raw records handed to clean_data alone
MaxTickers == 2        \* distinct option tickers among them
MaxPageRecords == 3    \* most records on a page in a whole fetch
MaxMonthsHist == 13    \* largest months_hist of _determine_base_dates alone
ClockYears == 2        \* calendar years the clock may show at the call
MaxRows == 3           \* most rows (dates) of underlying_price_df
MaxDays == 3           \* largest days_to_exp a GameEnvironment is made with
MaxContracts == 2      \* most qualifying contracts on a date
MaxPositions == 2      \* largest num_positions
MaxPrice == 2          \* option closing prices are 1..MaxPrice

(* Program constants *)

MAX_QUERY_PER_MINUTE == 4
SLEEP_MAX == 60
SIZE_LIMIT == 60000    \* make_clean_generator's ceiling

----------------------------------------------------------------------------
(* Values *)

None == [kind |-> "None"]

\* None as the value of a record's key.
NoneValue == -1

\* No GameEnvironment has been made.
NoGame == [pc |-> "none"]

\* A response body with a "results" list, and one without the key.
PageBody(records) == [has_results |-> TRUE, results |-> records]
PageBodyWithoutResults == [has_results |-> FALSE, results |-> << >>]

\* The statuses upstream answers with: success, a success that is not 200, a
\* redirection that is not followed, throttled, and a server error.
Statuses == {200, 204, 304, 429, 500}

\* A response comes at once or after the longest latency.
Latencies == {0, MaxLatency}

\* Engine 0 is the instance the caller holds; engines 1..MaxPartitions are the
\* copies of it that the pool's workers run query_all on, one per base date.
Engines == 0..MaxPartitions

\* The JSON body upstream answers with for page k of engine e's chain.
\* has_results tells whether the body has a "results" key at all.
PageOf(e, k) ==
    [kind |-> "page", part |-> e, request_id |-> k,
     has_results |-> chain[e][k].has_results, results |-> chain[e][k].results,
     next_url |-> IF k < Len(chain[e]) THEN k + 1 ELSE 0]

CeilDiv(a, b) == (a + b - 1) \div b

\* utils.timestamp_to_datetime: an instant as a datetime (the same instant).
timestamp_to_datetime(ts) == ts

\* _api_sleep_time that looks at the log only from 4 entries on.
_api_sleep_time_FourEntries(query_time_log) ==
    IF Len(query_time_log) > 3
    THEN LET a == timestamp_to_datetime(query_time_log[1].query_timestamp)
             b == timestamp_to_datetime(query_time_log[Len(query_time_log)].query_timestamp)
             diff == CeilDiv(b - a, TicksPerSecond)
         IN  IF diff < SLEEP_MAX THEN diff ELSE SLEEP_MAX
    ELSE SLEEP_MAX

\* PolygonPaginator._api_sleep_time, in seconds.
_api_sleep_time(query_time_log) ==
    IF Len(query_time_log) > 2
    THEN LET a == timestamp_to_datetime(query_time_log[1].query_timestamp)
             b == timestamp_to_datetime(query_time_log[Len(query_time_log)].query_timestamp)
             diff == CeilDiv(b - a, TicksPerSecond)
         IN  IF diff < SLEEP_MAX THEN diff ELSE SLEEP_MAX
    ELSE SLEEP_MAX

\* MustSleep with the quota test off by one (> for >=).
MustSleep_OffByOne(query_count, overload) ==
    (query_count > MAX_QUERY_PER_MINUTE) \/ overload

\* query_all's test for sleeping before the request (line 50).
MustSleep(query_count, overload) ==
    (query_count >= MAX_QUERY_PER_MINUTE) \/ overload

\* The payload dict a frame of query_all holds: the caller's, or the default.
PayloadOf(e) ==
    IF eng[e].payload_ref = "default" THEN default_payload ELSE eng[e].arg_payload

\* response.raise_for_status(): raises for a status of 400 and above.
raise_for_status(status) == status >= 400

----------------------------------------------------------------------------
(* The three record kinds: the keys clean_data gives a clean record *)

Kinds == {"StockMetaData", "HistoricalStockPrices", "OptionsContracts"}

\* StockMetaData.clean_data's selected_keys.
TickerKeys ==
    {"ticker", "name", "type", "active", "market", "locale",
     "primary_exchange", "currency_name", "cik"}

\* HistoricalStockPrices.clean_data's key_mapping.
PriceKeyMapping ==
    [v |-> "volume", vw |-> "volume_weight_price", c |-> "close_price",
     o |-> "open_price", h |-> "high_price", l |-> "low_price",
     t |-> "as_of_date", n |-> "number_of_transactions", otc |-> "otc"]

\* OptionsContracts.clean_data's key_mapping.
OptionKeyMapping ==
    [ticker |-> "option_ticker", expiration_date |-> "expiration_date",
     strike_price |-> "strike_price", contract_type |-> "contract_type",
     shares_per_contract |-> "shares_per_contract",
     primary_exchange |-> "primary_exchange",
     exercise_style |-> "exercise_style", cfi |-> "cfi"]

Range(f) == {f[x] : x \in DOMAIN f}

PriceKeys == Range(PriceKeyMapping) \cup {"ticker_id"}

OptionKeys == Range(OptionKeyMapping) \cup {"underlying_ticker_id"}

CleanKeys(kind) ==
    CASE kind = "StockMetaData" -> TickerKeys
      [] kind = "HistoricalStockPrices" -> PriceKeys
      [] kind = "OptionsContracts" -> OptionKeys

\* The key that names a record of the kind.
NameKey(kind) ==
    CASE kind = "StockMetaData" -> "ticker"
      [] kind = "HistoricalStockPrices" -> "as_of_date"
      [] kind = "OptionsContracts" -> "option_ticker"

\* len(record): the number of keys of a dict.
DictLen(record) == Cardinality(DOMAIN record)

----------------------------------------------------------------------------
(* A new PolygonPaginator (__init__), about to run query_all(url 1, payload). *)

\* iter(()): the generator attribute before fetch.
EmptyIterator == [state |-> "exhausted", i |-> 0, batch_size |-> 0, error |-> ""]

NewEngine(kind, payload) ==
    [kind |-> kind, ticker_id |-> 7,
     pc |-> "entry", url |-> 1, payload_ref |-> "arg", arg_payload |-> payload,
     overload |-> FALSE, depth |-> 1, slept |-> FALSE, sleep_time |-> 0,
     entry_count |-> 0,
     error |-> 0,
     query_count |-> 0, query_time_log |-> << >>, results |-> << >>,
     clean_results |-> << >>, clean_data_generator |-> EmptyIterator,
     clean_state |-> "idle", cursor |-> [page |-> 1, rec |-> 0], clean_error |-> "",
     yielded |-> << >>,
     months_hist |-> 0, collected |-> 0,
     called_at |-> 0, year |-> 0, month |-> 0, counter |-> 0,
     year_month_array |-> << >>, base_dates |-> << >>,
     requests |-> << >>, statuses |-> << >>]

\* An engine that takes no part in a run.
Unused == [NewEngine("StockMetaData", {}) EXCEPT !.pc = "unused"]

\* Engine 0 as s, every other engine unused.
Only0(s) == [e \in Engines |-> IF e = 0 THEN s ELSE Unused]

Running == {e \in Engines : eng[e].pc # "unused"}

----------------------------------------------------------------------------
(* query_all, one action per stretch between suspension points *)

\* EnterFrame that resets the count after the sleep and leaves the log.
EnterFrame_KeepsLog(s) ==
    LET sleep == MustSleep(s.query_count, s.overload)
    IN  [s EXCEPT
          !.pc = "request",
          !.arg_payload = IF s.payload_ref = "arg" THEN @ \cup {"apiKey"} ELSE @,
          !.entry_count = s.query_count,
          !.slept = sleep,
          !.sleep_time = IF sleep THEN _api_sleep_time(s.query_time_log) ELSE 0,
          !.query_count = IF sleep THEN 0 ELSE @]

\* Lines 49-53 on the instance: the credential goes into the caller's dict
\* (the default dict is kept apart, shared by every call that passes none);
\* when the frame must sleep, the count and the log are reset after it.
EnterFrame(s) ==
    LET sleep == MustSleep(s.query_count, s.overload)
    IN  [s EXCEPT
          !.pc = "request",
          !.arg_payload = IF s.payload_ref = "arg" THEN @ \cup {"apiKey"} ELSE @,
          !.entry_count = s.query_count,
          !.slept = sleep,
          !.sleep_time = IF sleep THEN _api_sleep_time(s.query_time_log) ELSE 0,
          !.query_count = IF sleep THEN 0 ELSE @,
          !.query_time_log = IF sleep THEN << >> ELSE @]

Enter(e) ==
    /\ eng[e].pc = "entry"
    /\ eng' = [eng EXCEPT ![e] = EnterFrame(eng[e])]
    /\ now' = IF MustSleep(eng[e].query_count, eng[e].overload)
              THEN now + _api_sleep_time(eng[e].query_time_log) * TicksPerSecond
              ELSE now
    /\ default_payload' =
          IF eng[e].payload_ref = "default"
          THEN default_payload \cup {"apiKey"} ELSE default_payload
    /\ UNCHANGED <<chain, n429, caller, game>>

\* Lines 55-56: the GET request leaves.
Issue(e) ==
    /\ eng[e].pc = "request"
    /\ eng' = [eng EXCEPT
          ![e].pc = "awaiting",
          ![e].requests = Append(@,
              [url |-> eng[e].url, payload |-> PayloadOf(e),
               overload |-> eng[e].overload, slept |-> eng[e].slept,
               sleep_time |-> eng[e].sleep_time,
               entry_count |-> eng[e].entry_count, at |-> now])]
    /\ UNCHANGED <<chain, now, default_payload, n429, caller, game>>

\* On200 with the page stored only after the recursive call has returned.
On200_AppendAfterRecursion(s, page, t) ==
    LET more == page.next_url # 0
    IN  [s EXCEPT
          !.statuses = Append(@, 200),
          !.query_count = @ + 1,
          !.query_time_log = Append(@,
              [request_id |-> page.request_id, query_timestamp |-> t]),
          !.results = <<page>> \o @,
          !.pc = IF more THEN "entry" ELSE "done",
          !.url = IF more THEN page.next_url ELSE @,
          !.payload_ref = IF more THEN "default" ELSE @,
          !.overload = IF more THEN FALSE ELSE @,
          !.depth = IF more THEN @ + 1 ELSE 0]

\* On200 whose recursive call hands the payload on (query_all(next_url, payload)).
On200_PassesPayload(s, page, t) ==
    LET more == page.next_url # 0
    IN  [s EXCEPT
          !.statuses = Append(@, 200),
          !.query_count = @ + 1,
          !.query_time_log = Append(@,
              [request_id |-> page.request_id, query_timestamp |-> t]),
          !.results = Append(@, page),
          !.pc = IF more THEN "entry" ELSE "done",
          !.url = IF more THEN page.next_url ELSE @,
          !.overload = IF more THEN FALSE ELSE @,
          !.depth = IF more THEN @ + 1 ELSE 0]

\* Lines 59-67: status 200 with body `page`, received at time t.  The
\* recursive call for next_url passes no payload; without next_url the call,
\* and with it every frame beneath it, returns.
On200(s, page, t) ==
    LET more == page.next_url # 0
    IN  [s EXCEPT
          !.statuses = Append(@, 200),
          !.query_count = @ + 1,
          !.query_time_log = Append(@,
              [request_id |-> page.request_id, query_timestamp |-> t]),
          !.results = Append(@, page),
          !.pc = IF more THEN "entry" ELSE "done",
          !.url = IF more THEN page.next_url ELSE @,
          !.payload_ref = IF more THEN "default" ELSE @,
          !.overload = IF more THEN FALSE ELSE @,
          !.depth = IF more THEN @ + 1 ELSE 0]

\* On429 that retries once and raises on the second 429 in a row.
On429_GiveUp(s) ==
    IF s.overload
    THEN [s EXCEPT !.statuses = Append(@, 429), !.query_count = @ + 1,
                   !.pc = "failed", !.error = 429, !.depth = 0]
    ELSE [s EXCEPT !.statuses = Append(@, 429), !.query_count = @ + 1,
                   !.pc = "entry", !.overload = TRUE, !.depth = @ + 1]

\* On429 that stores the 429 body as it would a page.
On429_KeepsBody(s) ==
    [s EXCEPT
      !.statuses = Append(@, 429),
      !.query_count = @ + 1,
      !.results = Append(@, None),
      !.pc = "entry",
      !.overload = TRUE,
      !.depth = @ + 1]

\* On429 whose retry leaves overload out (query_all(url, payload)).
On429_NoOverload(s) ==
    [s EXCEPT
      !.statuses = Append(@, 429),
      !.query_count = @ + 1,
      !.pc = "entry",
      !.overload = FALSE,
      !.depth = @ + 1]

\* Lines 59, 68-69: status 429; the recursive call retries the same url and
\* payload with overload=True.
On429(s) ==
    [s EXCEPT
      !.statuses = Append(@, 429),
      !.query_count = @ + 1,
      !.pc = "entry",
      !.overload = TRUE,
      !.depth = @ + 1]

\* Lines 59, 70-71: any other status; raise_for_status decides between an
\* error out of every frame and a normal return.
OnOther(s, status) ==
    [s EXCEPT
      !.statuses = Append(@, status),
      !.query_count = @ + 1,
      !.pc = IF raise_for_status(status) THEN "failed" ELSE "done",
      !.error = IF raise_for_status(status) THEN status ELSE @,
      !.depth = 0]

Respond200(e, latency) ==
    /\ eng[e].pc = "awaiting"
    /\ now' = now + latency
    /\ eng' = [eng EXCEPT ![e] = On200(eng[e], PageOf(e, eng[e].url), now')]
    /\ UNCHANGED <<chain, default_payload, n429, caller, game>>

Respond429(e, latency) ==
    /\ eng[e].pc = "awaiting"
    /\ n429 < Max429
    /\ n429' = n429 + 1
    /\ now' = now + latency
    /\ eng' = [eng EXCEPT ![e] = On429(eng[e])]
    /\ UNCHANGED <<chain, default_payload, caller, game>>

RespondOther(e, status, latency) ==
    /\ eng[e].pc = "awaiting"
    /\ status \notin {200, 429}
    /\ now' = now + latency
    /\ eng' = [eng EXCEPT ![e] = OnOther(eng[e], status)]
    /\ UNCHANGED <<chain, default_payload, n429, caller, game>>

QueryAllStep(e) ==
    \/ Enter(e)
    \/ Issue(e)
    \/ \E d \in Latencies : Respond200(e, d)
    \/ \E d \in Latencies : Respond429(e, d)
    \/ \E s \in Statuses, d \in Latencies : RespondOther(e, s, d)

----------------------------------------------------------------------------
(* The paginator alone: one engine, one query_all chain *)

InitQuery ==
    /\ \E n \in 1..MaxPages :
          chain = [e \in Engines |->
                      IF e = 0 THEN [k \in 1..n |-> PageBody(<< >>)] ELSE << >>]
    /\ eng = Only0(NewEngine("StockMetaData", {"active", "market", "limit"}))
    /\ now = 0
    /\ default_payload = {}
    /\ n429 = 0
    /\ game = NoGame
    /\ caller = "waiting"

NextQuery == QueryAllStep(0)

SpecQuery == InitQuery /\ [][NextQuery]_vars

\* The event loop resumes a ready coroutine and upstream answers every request.
SpecQueryFair == SpecQuery /\ WF_vars(NextQuery)

----------------------------------------------------------------------------
(* Properties of query_all *)

All200(e) == \A i \in 1..Len(eng[e].statuses) : eng[e].statuses[i] = 200

Count(seq, v) == Cardinality({i \in 1..Len(seq) : seq[i] = v})

\* The pages of engine e's chain, in chain order.
ChainPages(e) == [k \in 1..Len(chain[e]) |-> PageOf(e, k)]

Terminal(e) == eng[e].pc \in {"done", "failed"}

\* C1 (safety part): while every response has been 200, request i asked for
\* page i and no other, results holds the pages answered so far in request
\* order, and a normal return leaves exactly the chain's pages in results.
C1_PagesInRequestOrder ==
    \A e \in Running : All200(e) =>
        /\ eng[e].pc # "failed"
        /\ \A i \in 1..Len(eng[e].requests) : eng[e].requests[i].url = i
        /\ eng[e].results = SubSeq(ChainPages(e), 1, Len(eng[e].statuses))
        /\ (eng[e].pc = "done" => eng[e].results = ChainPages(e))

C2_ThrottleBeforeRequest ==
    \A e \in Running : \A i \in 1..Len(eng[e].requests) :
        LET r == eng[e].requests[i]
        IN  /\ (r.entry_count = MAX_QUERY_PER_MINUTE => r.slept)
            /\ (r.entry_count < MAX_QUERY_PER_MINUTE /\ ~r.overload => ~r.slept)

C2_Witness ==
    \E i \in 1..Len(eng[0].requests) :
        /\ eng[0].requests[i].entry_count = MAX_QUERY_PER_MINUTE
        /\ eng[0].requests[i].slept
        /\ ~eng[0].requests[i].overload

\* C3, as claimed: a response that is neither 200 nor 429 leaves the chain
\* failed, is the last response and the last request, and adds no page.
C3_OtherStatusFails ==
    \A e \in Running : \A i \in 1..Len(eng[e].statuses) :
        eng[e].statuses[i] \notin {200, 429} =>
            /\ eng[e].pc = "failed"
            /\ i = Len(eng[e].statuses)
            /\ i = Len(eng[e].requests)
            /\ Len(eng[e].results) = Count(eng[e].statuses, 200)

\* C4 (safety part): a chain fails only on a status other than 429, and the
\* request after a 429 asks for the same url with the same payload, from a
\* frame that slept first.
C4_RetrySafety ==
    \A e \in Running :
        /\ eng[e].pc = "failed" =>
              /\ eng[e].error # 429
              /\ eng[e].statuses[Len(eng[e].statuses)] # 429
        /\ \A i \in 1..Len(eng[e].statuses) :
              eng[e].statuses[i] = 429 =>
                  /\ eng[e].pc \notin {"done", "failed"} \/ i < Len(eng[e].statuses)
                  /\ i < Len(eng[e].requests) =>
                        /\ eng[e].requests[i + 1].url = eng[e].requests[i].url
                        /\ eng[e].requests[i + 1].payload = eng[e].requests[i].payload
                        /\ eng[e].requests[i + 1].slept

C5_RetryYieldsSameResults ==
    \A e \in Running :
        (eng[e].pc = "done" /\ \A i \in 1..Len(eng[e].statuses) :
                                   eng[e].statuses[i] \in {200, 429}) =>
            /\ eng[e].results = ChainPages(e)
            /\ Len(eng[e].requests) = Len(chain[e]) + Count(eng[e].statuses, 429)

C5_Witness ==
    /\ eng[0].pc = "done"
    /\ Len(chain[0]) = 1
    /\ eng[0].statuses = <<429, 200>>
    /\ Len(eng[0].requests) = 2

\* C17: every request query_all issued carries apiKey; a request for the
\* first url carries the caller's parameters and the credential, and a request
\* for a next_url, retried after a 429 or not, carries the credential alone.
C17_CredentialOnEveryRequest ==
    \A e \in Running : \A i \in 1..Len(eng[e].requests) :
        LET r == eng[e].requests[i]
        IN  /\ "apiKey" \in r.payload
            /\ r.url = 1 => r.payload = eng[e].arg_payload
            /\ r.url > 1 => r.payload = {"apiKey"}

C17_Witness ==
    /\ eng[0].statuses = <<429, 200, 429>>
    /\ Len(eng[0].requests) = 4
    /\ eng[0].requests[1].payload = {"active", "market", "limit", "apiKey"}
    /\ eng[0].requests[2].overload
    /\ eng[0].requests[3].url = 2 /\ ~eng[0].requests[3].overload
    /\ eng[0].requests[4].url = 2 /\ eng[0].requests[4].overload
    /\ eng[0].requests[4].payload = {"apiKey"}

\* query_count as it stood before the request that was first answered 429 in
\* the run of 429 answers a retry of engine e belongs to.
CountBeforeThrottled(e) ==
    LET rq == eng[e].requests
        j == CHOOSE k \in 1..Len(rq) :
                /\ ~rq[k].overload
                /\ \A l \in (k + 1)..Len(rq) : rq[l].overload
    IN  IF rq[j].slept THEN 0 ELSE rq[j].entry_count

\* C19: a 429 answer starts a frame for the same url with overload set; that
\* frame sleeps and resets query_count whatever it was; and when the retry is
\* answered query_count is 1, no more than the count before the throttled
\* request plus the one a single request adds.
C19_RetryCountsOnce ==
    [][\A e \in Running :
          /\ (eng[e].pc = "awaiting" /\ eng'[e].statuses = Append(eng[e].statuses, 429)) =>
                /\ eng'[e].pc = "entry"
                /\ eng'[e].overload
                /\ eng'[e].url = eng[e].url
          /\ (eng[e].pc = "entry" /\ eng'[e].pc = "request"
                /\ eng[e].statuses # << >>
                /\ eng[e].statuses[Len(eng[e].statuses)] = 429) =>
                /\ eng'[e].slept
                /\ eng'[e].query_count = 0
          /\ (eng[e].pc = "awaiting" /\ eng[e].statuses # << >>
                /\ eng[e].statuses[Len(eng[e].statuses)] = 429
                /\ Len(eng'[e].statuses) = Len(eng[e].statuses) + 1) =>
                /\ eng'[e].query_count = 1
                /\ eng'[e].query_count <= CountBeforeThrottled(e) + 1]_vars

C19_Witness ==
    /\ eng[0].statuses = <<200, 200, 429, 200>>
    /\ eng[0].requests[3].entry_count = 2 /\ ~eng[0].requests[3].slept
    /\ eng[0].requests[4].entry_count = 3 /\ eng[0].requests[4].slept
    /\ eng[0].requests[4].overload
    /\ eng[0].query_count = 1

\* C20, as claimed: of any 6 requests an engine issued one after another, the
\* last left 60 seconds or more after the first, so that no window of 60
\* seconds holds more than MAX_QUERY_PER_MINUTE + 1 requests.
C20_AtMostFivePerMinute ==
    \A e \in Running :
        \A i \in 1..(Len(eng[e].requests) - (MAX_QUERY_PER_MINUTE + 1)) :
            eng[e].requests[i + MAX_QUERY_PER_MINUTE + 1].at - eng[e].requests[i].at
                >= SLEEP_MAX * TicksPerSecond

\* C21: the step in which a frame sleeps leaves query_count 0 and
\* query_time_log empty and does not touch results, and they are still so in
\* the step that issues the frame's request.
C21_ResetAfterSleep ==
    [][\A e \in Running :
          /\ (eng[e].pc = "entry" /\ eng'[e].pc = "request" /\ eng'[e].slept) =>
                /\ eng'[e].query_count = 0
                /\ eng'[e].query_time_log = << >>
                /\ eng'[e].results = eng[e].results
          /\ (eng[e].pc = "request" /\ eng[e].slept /\ eng'[e].pc = "awaiting") =>
                /\ eng[e].query_count = 0 /\ eng'[e].query_count = 0
                /\ eng[e].query_time_log = << >> /\ eng'[e].query_time_log = << >>
                /\ eng'[e].results = eng[e].results]_vars

C21_Witness ==
    /\ eng[0].pc = "awaiting"
    /\ eng[0].slept
    /\ eng[0].statuses = <<200, 200, 200, 200>>
    /\ Len(eng[0].results) = MAX_QUERY_PER_MINUTE
    /\ eng[0].query_count = 0
    /\ eng[0].query_time_log = << >>

\* C23: an engine has at most one request without its response, and exactly
\* one while it awaits; a request for page k + 1, first or retried, is out
\* only when page k has been answered and stands in results, right after the
\* pages before it.
C23_OneRequestAtATime ==
    \A e \in Running :
        LET s == eng[e]
            open == Len(s.requests) - Len(s.statuses)
        IN  /\ open \in {0, 1}
            /\ open = 1 <=> s.pc = "awaiting"
            /\ \A i \in 1..Len(s.requests) :
                  s.requests[i].url > 1 =>
                      /\ i > 1
                      /\ Count(SubSeq(s.statuses, 1, i - 1), 200) = s.requests[i].url - 1
            /\ s.pc = "awaiting" /\ s.url > 1 =>
                  /\ Len(s.results) = s.url - 1
                  /\ s.results[s.url - 1] = PageOf(e, s.url - 1)

C23_Witness ==
    /\ eng[0].pc = "awaiting"
    /\ eng[0].url = 3
    /\ eng[0].statuses = <<200, 429, 200>>
    /\ eng[0].results = <<PageOf(0, 1), PageOf(0, 2)>>
    /\ Len(eng[0].requests) = 4

\* C25 (state part): between its steps an engine has 0 <= query_count <=
\* MAX_QUERY_PER_MINUTE and no more log entries than query_count, the log's
\* entries are those of the last 200 answers, one each, and every request
\* left with the counter below MAX_QUERY_PER_MINUTE.
C25_CountAndLogBounds ==
    \A e \in Running :
        LET s == eng[e]
            n == Len(s.query_time_log)
        IN  /\ 0 <= s.query_count /\ s.query_count <= MAX_QUERY_PER_MINUTE
            /\ n <= s.query_count
            /\ n <= Len(s.results)
            /\ \A i \in 1..n :
                  s.query_time_log[i].request_id
                      = s.results[Len(s.results) - n + i].request_id
            /\ \A i \in 1..Len(s.requests) :
                  (IF s.requests[i].slept THEN 0 ELSE s.requests[i].entry_count)
                      < MAX_QUERY_PER_MINUTE
            /\ s.pc = "awaiting" => s.query_count < MAX_QUERY_PER_MINUTE

\* C25: the bounds above hold in every state, a 200 answer adds one entry to
\* the log, and a 429 or any other answer leaves the log as it is.
C25_CounterInvariant ==
    /\ [] C25_CountAndLogBounds
    /\ [][\A e \in Running :
             Len(eng'[e].statuses) = Len(eng[e].statuses) + 1 =>
                 IF eng'[e].statuses[Len(eng'[e].statuses)] = 200
                 THEN /\ Len(eng'[e].query_time_log) = Len(eng[e].query_time_log) + 1
                      /\ SubSeq(eng'[e].query_time_log, 1, Len(eng[e].query_time_log))
                            = eng[e].query_time_log
                 ELSE eng'[e].query_time_log = eng[e].query_time_log]_vars

C25_Witness ==
    /\ eng[0].statuses = <<200, 200, 200, 429>>
    /\ eng[0].pc = "entry"
    /\ eng[0].query_count = MAX_QUERY_PER_MINUTE
    /\ Len(eng[0].query_time_log) = 3

----------------------------------------------------------------------------
(* The governor alone: a frame of query_all entered with the quota used up or
   with overload set, over logs of every span around the 60 second cap.  The
   requests that filled the log are not part of the state. *)

\* Times of the log's entries, in ticks: at the start, and around 60 seconds.
LogTimes == 0..2 \cup {SLEEP_MAX * TicksPerSecond + d : d \in (0 - 2)..2}

InitSleep ==
    /\ \E n \in 0..MAX_QUERY_PER_MINUTE :
          \E ts \in [1..n -> LogTimes], extra \in 0..(MAX_QUERY_PER_MINUTE - n) :
             /\ \A i \in 1..(n - 1) : ts[i] <= ts[i + 1]
             /\ now = IF n = 0 THEN 0 ELSE ts[n]
             /\ eng = Only0([NewEngine("StockMetaData", {"active", "market", "limit"})
                       EXCEPT
                         !.query_count = n + extra,
                         !.overload = (n + extra < MAX_QUERY_PER_MINUTE),
                         !.query_time_log =
                             [i \in 1..n |-> [request_id |-> i, query_timestamp |-> ts[i]]]])
    /\ chain = [e \in Engines |-> << >>]
    /\ default_payload = {}
    /\ n429 = 0
    /\ game = NoGame
    /\ caller = "waiting"

NextSleep == Enter(0) \/ Issue(0)

SpecSleep == InitSleep /\ [][NextSleep]_vars

\* The whole seconds that cover the time from the oldest to the newest entry
\* of a log.
LogSpanSeconds(log) ==
    LET span == log[Len(log)].query_timestamp - log[1].query_timestamp
    IN  CHOOSE n \in 0..(span + 1) :
            /\ n * TicksPerSecond >= span
            /\ (n - 1) * TicksPerSecond < span

\* C18: every step in which a frame sleeps lasts min(60, ceil(seconds from
\* the oldest to the newest log entry)) seconds when the log holds 3 entries
\* or more and 60 seconds when it holds fewer, never more than 60.
C18_SleepDuration ==
    [][\A e \in Running :
          (eng[e].pc = "entry" /\ eng'[e].pc = "request" /\ eng'[e].slept) =>
              LET log == eng[e].query_time_log
                  d == eng'[e].sleep_time
              IN  /\ now' - now = d * TicksPerSecond
                  /\ d <= 60
                  /\ Len(log) >= 3 =>
                        d = IF LogSpanSeconds(log) < 60 THEN LogSpanSeconds(log) ELSE 60
                  /\ Len(log) < 3 => d = 60]_vars

\* A frame that slept 59 seconds: its log held 3 entries or more, the oldest
\* more than 58 and at most 59 seconds before the newest.
C18_Witness ==
    /\ eng[0].pc = "request"
    /\ eng[0].slept
    /\ eng[0].sleep_time = 59
    /\ eng[0].query_time_log = << >>

----------------------------------------------------------------------------
(* clean_data of the three kinds *)

MSEC_PER_DAY == 86400000

\* utils.timestamp_to_datetime(ts, msec_units=True): the calendar date of a
\* millisecond epoch timestamp, as a day number.
timestamp_to_date_msec(ts) == ts \div MSEC_PER_DAY

\* dict.get(key): the value, or None when the key is missing.
Get(record, key) == IF key \in DOMAIN record THEN record[key] ELSE NoneValue

\* {key_mapping[key]: record.get(key) for key in key_mapping}
MapRecord(key_mapping, record) ==
    [ck \in Range(key_mapping) |->
        Get(record, CHOOSE k \in DOMAIN key_mapping : key_mapping[k] = ck)]

RECURSIVE DedupFrom(_, _, _)
\* list({v[key]: v for v in records}.values()): a dict keeps each key at the
\* place of its first insertion and holds the value inserted last.
DedupFrom(records, key, out) ==
    IF records = << >> THEN out
    ELSE LET v == Head(records)
             at == {j \in 1..Len(out) : out[j][key] = v[key]}
         IN  DedupFrom(Tail(records), key,
                       IF at = {} THEN Append(out, v)
                       ELSE [out EXCEPT ![CHOOSE j \in at : TRUE] = v])

RECURSIVE DedupKeepFirstFrom(_, _, _)
DedupKeepFirstFrom(records, key, out) ==
    IF records = << >> THEN out
    ELSE LET v == Head(records)
             at == {j \in 1..Len(out) : out[j][key] = v[key]}
         IN  DedupKeepFirstFrom(Tail(records), key,
                                IF at = {} THEN Append(out, v) ELSE out)

\* Dedup that keeps the first record of each key.
Dedup_KeepFirst(records, key) == DedupKeepFirstFrom(records, key, << >>)

\* Line 245.
Dedup(records, key) == DedupFrom(records, key, << >>)

\* CleanOne that puts the new record in front of the list (insert(0, t)).
CleanOne_Prepends(kind, ticker_id, clean_results, record) ==
    CASE kind = "StockMetaData" ->
            <<[x \in TickerKeys |-> Get(record, x)]>> \o clean_results
      [] kind = "HistoricalStockPrices" ->
            LET t == MapRecord(PriceKeyMapping, record)
            IN  <<[k \in PriceKeys |->
                        CASE k = "as_of_date" -> timestamp_to_date_msec(t.as_of_date)
                          [] k = "ticker_id" -> ticker_id
                          [] OTHER -> t[k]]>> \o clean_results
      [] kind = "OptionsContracts" ->
            LET t == MapRecord(OptionKeyMapping, record)
            IN  Dedup(<<[k \in OptionKeys |->
                        IF k = "underlying_ticker_id" THEN ticker_id ELSE t[k]]>>
                      \o clean_results, "option_ticker")

\* The body of clean_data's inner loop for one raw record: lines 126-127,
\* 174-177 and 242-245.
CleanOne(kind, ticker_id, clean_results, record) ==
    CASE kind = "StockMetaData" ->
            Append(clean_results, [x \in TickerKeys |-> Get(record, x)])
      [] kind = "HistoricalStockPrices" ->
            LET t == MapRecord(PriceKeyMapping, record)
            IN  Append(clean_results,
                    [k \in PriceKeys |->
                        CASE k = "as_of_date" -> timestamp_to_date_msec(t.as_of_date)
                          [] k = "ticker_id" -> ticker_id
                          [] OTHER -> t[k]])
      [] kind = "OptionsContracts" ->
            LET t == MapRecord(OptionKeyMapping, record)
            IN  Dedup(Append(clean_results,
                    [k \in OptionKeys |->
                        IF k = "underlying_ticker_id" THEN ticker_id ELSE t[k]]),
                      "option_ticker")

\* What reading a page's records raises: None has no .get and no [], a body
\* without "results" gives a KeyError to result_list["results"] (line 125) and
\* None, which cannot be iterated, to page.get("results") (lines 173, 241).
PageError(kind, page) ==
    CASE page = None ->
            IF kind = "StockMetaData" THEN "TypeError" ELSE "AttributeError"
      [] ~page.has_results ->
            IF kind = "StockMetaData" THEN "KeyError" ELSE "TypeError"
      [] OTHER -> ""

\* One turn of clean_data's loops: the outer loop takes the next page (rec = 0),
\* the inner loop cleans the page's next record.
CleanStep(s) ==
    LET p == s.cursor.page
        r == s.cursor.rec
    IN  IF p > Len(s.results) THEN [s EXCEPT !.clean_state = "done"]
        ELSE IF PageError(s.kind, s.results[p]) # ""
             THEN [s EXCEPT !.clean_state = "raised",
                            !.clean_error = PageError(s.kind, s.results[p])]
        ELSE IF r >= Len(s.results[p].results)
             THEN [s EXCEPT !.cursor = [page |-> p + 1, rec |-> 0]]
        ELSE [s EXCEPT
                !.cursor = [page |-> p, rec |-> r + 1],
                !.clean_results =
                    CleanOne(s.kind, s.ticker_id, @, s.results[p].results[r + 1])]

RECURSIVE RunClean(_)
RunClean(s) == IF s.clean_state # "running" THEN s ELSE RunClean(CleanStep(s))

\* clean_data(), from its first line to its return or its error.
clean_data(s) ==
    RunClean([s EXCEPT !.clean_state = "running",
                       !.cursor = [page |-> 1, rec |-> 0]])

----------------------------------------------------------------------------
(* make_clean_generator, and the caller's loop over clean_data_generator *)

\* Python's round(a / b) for positive integers: to nearest, ties to even.
RoundHalfEven(a, b) ==
    LET q == a \div b
        r == a % b
    IN  IF 2 * r > b THEN q + 1
        ELSE IF 2 * r < b THEN q
        ELSE IF q % 2 = 0 THEN q ELSE q + 1

\* Line 75: batch_size = round(60000 / record_size).
BatchSize(record_size) == RoundHalfEven(SIZE_LIMIT, record_size)

Min(a, b) == IF a < b THEN a ELSE b

\* Slice that takes one record fewer than asked.
Slice_DropsLast(i, j, n) == [lo |-> Min(i, n), hi |-> Min(j, n) - 1]

\* The slice [i : j] of a list of n records: the records lo+1 .. hi, counted
\* from 1.
Slice(i, j, n) == [lo |-> Min(i, n), hi |-> Min(j, n)]

\* The records of a batch the generator yielded.
BatchRecords(s, b) == SubSeq(s.clean_results, b.lo + 1, b.hi)

\* The generator object make_clean_generator() returns: no line of the body
\* has run yet.
NewGenerator == [state |-> "created", i |-> 0, batch_size |-> 0, error |-> ""]

GenRaise(s, err) ==
    [s EXCEPT !.clean_data_generator.state = "raised",
              !.clean_data_generator.error = err]

GenYield(s, i, batch_size) ==
    [s EXCEPT !.clean_data_generator =
                  [state |-> "suspended", i |-> i, batch_size |-> batch_size,
                   error |-> ""],
              !.yielded = Append(@, Slice(i, i + batch_size, Len(s.clean_results)))]

GenStop(s) == [s EXCEPT !.clean_data_generator.state = "exhausted"]

\* One next() on clean_data_generator (lines 74-77): the body runs from where
\* it stands to its next yield, to its end, or to an error.
GenNext(s) ==
    LET g == s.clean_data_generator
        n == Len(s.clean_results)
    IN  CASE g.state = "created" ->
                IF n = 0 THEN GenRaise(s, "IndexError")
                ELSE IF DictLen(s.clean_results[1]) = 0
                     THEN GenRaise(s, "ZeroDivisionError")
                ELSE IF BatchSize(DictLen(s.clean_results[1])) = 0
                     THEN GenRaise(s, "ValueError")
                ELSE GenYield(s, 0, BatchSize(DictLen(s.clean_results[1])))
          [] g.state = "suspended" ->
                IF g.i + g.batch_size < n
                THEN GenYield(s, g.i + g.batch_size, g.batch_size)
                ELSE GenStop(s)
          [] OTHER -> s

\* The caller's for-loop over the generator asks for the next batch.
Consume(e) ==
    /\ caller \in {"fetched", "consuming"}
    /\ eng' = [eng EXCEPT ![e] = GenNext(eng[e])]
    /\ caller' = CASE eng'[e].clean_data_generator.state = "suspended" -> "consuming"
                   [] eng'[e].clean_data_generator.state = "raised" -> "consume_raised"
                   [] OTHER -> "consumed"
    /\ UNCHANGED <<chain, now, default_payload, n429, game>>

----------------------------------------------------------------------------
(* The batch generator alone, over clean_results of every kind and length *)

Offsets == {0, 1, 666, 667, 668, 999}

Lengths == {k * 1000 + d : k \in 0..MaxThousands, d \in Offsets} \ {0}

\* A clean record of the kind, named id.
CleanRecord(kind, id) ==
    [k \in CleanKeys(kind) |-> IF k = NameKey(kind) THEN id ELSE 0]

InitBatch ==
    /\ \E kind \in Kinds, n \in Lengths :
          eng = Only0([NewEngine(kind, {}) EXCEPT
                          !.pc = "done",
                          !.clean_results = [i \in 1..n |-> CleanRecord(kind, i)],
                          !.clean_data_generator = NewGenerator])
    /\ chain = [e \in Engines |-> << >>]
    /\ now = 0
    /\ default_payload = {}
    /\ n429 = 0
    /\ game = NoGame
    /\ caller = "fetched"

NextBatch == Consume(0)

SpecBatch == InitBatch /\ [][NextBatch]_vars

----------------------------------------------------------------------------
(* Properties of make_clean_generator *)

RECURSIVE ConcatBatches(_, _)
\* The first k yielded batches, concatenated in yield order.
ConcatBatches(s, k) ==
    IF k = 0 THEN << >>
    ELSE ConcatBatches(s, k - 1) \o BatchRecords(s, s.yielded[k])

\* C6: over non-empty clean_results the batches yielded so far, concatenated
\* in yield order, are the records up to the last one yielded, in input
\* order; when the loop ends they are clean_results exactly, no batch is empty
\* and only the last may be shorter than batch_size; no error is raised.
C6_BatchCoverage ==
    \A e \in Running :
        LET s == eng[e]
            y == s.yielded
            all == ConcatBatches(s, Len(y))
        IN  Len(s.clean_results) > 0 =>
              /\ all = SubSeq(s.clean_results, 1, Len(all))
              /\ caller = "consumed" => all = s.clean_results
              /\ caller # "consume_raised"
              /\ \A k \in 1..Len(y) :
                    /\ Len(BatchRecords(s, y[k])) >= 1
                    /\ Len(BatchRecords(s, y[k])) <= s.clean_data_generator.batch_size
                    /\ k < Len(y) =>
                          Len(BatchRecords(s, y[k])) = s.clean_data_generator.batch_size

C6_Witness ==
    /\ caller = "consumed"
    /\ Len(eng[0].yielded) = 3
    /\ Len(BatchRecords(eng[0], eng[0].yielded[3])) < eng[0].clean_data_generator.batch_size
    /\ ConcatBatches(eng[0], 3) = eng[0].clean_results

\* C8, as claimed: no yielded batch is larger than the ceiling, counting each
\* record at the size of the first.
C8_BatchWithinCeiling ==
    \A e \in Running : \A k \in 1..Len(eng[e].yielded) :
        Len(BatchRecords(eng[e], eng[e].yielded[k])) * DictLen(eng[e].clean_results[1])
            <= SIZE_LIMIT

\* C22, as claimed: the batch size a started generator works with is
\* floor(60000 / number of keys of the first record).
C22_BatchSizeIsFloor ==
    \A e \in Running :
        eng[e].clean_data_generator.state = "suspended" =>
            eng[e].clean_data_generator.batch_size
                = SIZE_LIMIT \div DictLen(eng[e].clean_results[1])

----------------------------------------------------------------------------
(* fetch: query_data, then clean_data, then the generator *)

\* AfterQueryData that makes the generator whether clean_data raised or not.
AfterQueryData_GeneratorAlways(s) ==
    [clean_data(s) EXCEPT !.clean_data_generator = NewGenerator]

\* Lines 91-92, run when query_data has returned: clean_data, and unless it
\* raised, the new generator.
AfterQueryData(s) ==
    LET c == clean_data(s)
    IN  IF c.clean_state = "raised" THEN c
        ELSE [c EXCEPT !.clean_data_generator = NewGenerator]

\* fetch after `await self.query_data()`: an error of query_data leaves fetch
\* at once, as does one of clean_data.
FetchAfterQuery(e) ==
    /\ caller = "fetching"
    /\ Terminal(e)
    /\ IF eng[e].pc = "failed"
       THEN /\ caller' = "fetch_raised"
            /\ UNCHANGED eng
       ELSE /\ eng' = [eng EXCEPT ![e] = AfterQueryData(eng[e])]
            /\ caller' = IF eng'[e].clean_state = "raised"
                         THEN "fetch_raised" ELSE "fetched"
    /\ UNCHANGED <<chain, now, default_payload, n429, game>>

----------------------------------------------------------------------------
(* A whole fetch of ticker metadata or of price bars, then the caller's loop *)

\* A record as upstream sends it: ticker metadata carries a key clean_data
\* does not select and no cik; a price bar carries its time in milliseconds
\* and no otc; an option contract carries its underlying ticker.
RawRecord(kind, id, mark) ==
    CASE kind = "StockMetaData" ->
            [ticker |-> id, name |-> mark, type |-> 0, active |-> 1, market |-> 0,
             locale |-> 0, primary_exchange |-> 0, currency_name |-> 0,
             last_updated_utc |-> 0]
      [] kind = "HistoricalStockPrices" ->
            [v |-> mark, vw |-> 0, c |-> 0, o |-> 0, h |-> 0, l |-> 0,
             t |-> id * MSEC_PER_DAY + 1, n |-> 0]
      [] kind = "OptionsContracts" ->
            [ticker |-> id, expiration_date |-> 0, strike_price |-> 0,
             contract_type |-> 0, shares_per_contract |-> 100,
             primary_exchange |-> 0, exercise_style |-> 0, cfi |-> mark,
             underlying_ticker |-> 0]

\* query_data's payload (lines 102, 109 and 157).
QueryPayload(kind) ==
    CASE kind = "StockMetaData" -> {"active", "market", "limit", "ticker"}
      [] kind = "HistoricalStockPrices" -> {"adjusted", "sort", "limit"}
      [] kind = "OptionsContracts" -> {"limit", "underlying_ticker", "as_of"}

\* Page k of a chain: c records, or a body without "results" (c = -1).
FetchPage(kind, k, c) ==
    IF c < 0 THEN PageBodyWithoutResults
    ELSE PageBody([j \in 1..c |-> RawRecord(kind, (k - 1) * MaxPageRecords + j, 0)])

PageCounts == {-1, 0, MaxPageRecords}

InitFetch ==
    /\ \E kind \in {"StockMetaData", "HistoricalStockPrices"},
          n \in 1..MaxFetchPages :
          \E counts \in [1..n -> PageCounts] :
             /\ chain = [e \in Engines |->
                            IF e = 0 THEN [k \in 1..n |-> FetchPage(kind, k, counts[k])]
                            ELSE << >>]
             /\ eng = Only0(NewEngine(kind, QueryPayload(kind)))
    /\ now = 0
    /\ default_payload = {}
    /\ n429 = 0
    /\ game = NoGame
    /\ caller = "fetching"

NextFetch ==
    \/ Enter(0)
    \/ Issue(0)
    \/ Respond200(0, 0)
    \/ Respond429(0, 0)
    \/ \E s \in Statuses : RespondOther(0, s, 0)
    \/ FetchAfterQuery(0)
    \/ Consume(0)

SpecFetch == InitFetch /\ [][NextFetch]_vars

\* C7, as claimed: a fetch whose clean_results is empty hands the caller's
\* loop no batch and no error.
C7_EmptyYieldsNoBatch ==
    \A e \in Running :
        (caller \in {"consumed", "consume_raised"} /\ eng[e].clean_results = << >>) =>
            /\ caller = "consumed"
            /\ eng[e].yielded = << >>

RECURSIVE Flatten(_)
\* The records of a list of pages, in page-then-record order.
Flatten(pages) ==
    IF pages = << >> THEN << >> ELSE Head(pages).results \o Flatten(Tail(pages))

\* The clean record lines 126, 174-176 and 242-243 make of one raw record.
Normalized(kind, ticker_id, record) == CleanOne(kind, ticker_id, << >>, record)[1]

FetchReturned == caller \in {"fetched", "consuming", "consumed", "consume_raised"}

\* C12: once fetch has returned normally, query_data had returned normally,
\* clean_data has run to its end, clean_results holds, once each and in
\* page-then-record order, the normalized records of every page in results,
\* and clean_data_generator is the batch generator (not yet started when fetch
\* returns); once fetch has raised, query_data or clean_data had raised,
\* clean_data_generator is still the empty initial iterator and no batch was
\* yielded.
C12_FetchCleansOnceOrRaises ==
    \A e \in Running :
        LET s == eng[e]
            raw == Flatten(s.results)
        IN  /\ FetchReturned =>
                  /\ s.pc = "done"
                  /\ s.clean_state = "done"
                  /\ s.clean_results =
                        [i \in 1..Len(raw) |-> Normalized(s.kind, s.ticker_id, raw[i])]
                  /\ s.clean_data_generator # EmptyIterator \/ caller = "consumed"
                  /\ caller = "fetched" => s.clean_data_generator = NewGenerator
            /\ caller = "fetch_raised" =>
                  /\ s.pc = "failed" \/ s.clean_state = "raised"
                  /\ s.pc = "failed" => s.clean_state = "idle" /\ s.clean_results = << >>
                  /\ s.clean_data_generator = EmptyIterator
                  /\ s.yielded = << >>
            /\ (Terminal(e) /\ caller = "fetching") => s.clean_state = "idle"

C12_Witness ==
    /\ caller = "fetched"
    /\ eng[0].kind = "HistoricalStockPrices"
    /\ Len(eng[0].results) = MaxFetchPages
    /\ Len(eng[0].clean_results) = MaxFetchPages * MaxPageRecords
    /\ eng[0].clean_data_generator = NewGenerator

\* A fetch that raised in clean_data.
C12_RaisedInCleanData ==
    /\ caller = "fetch_raised"
    /\ eng[0].pc = "done"
    /\ eng[0].clean_state = "raised"
    /\ Len(eng[0].clean_results) > 0

\* Whether clean record c is the price bar of raw record r for ticker_id.
IsPriceBarOf(c, r, ticker_id) ==
    /\ DOMAIN c = PriceKeys
    /\ c.ticker_id = ticker_id
    /\ c.as_of_date = timestamp_to_date_msec(r.t)
    /\ c.volume = r.v /\ c.volume_weight_price = r.vw
    /\ c.close_price = r.c /\ c.open_price = r.o
    /\ c.high_price = r.h /\ c.low_price = r.l
    /\ c.number_of_transactions = r.n
    /\ c.otc = Get(r, "otc")

\* C15: when the caller's loop over a HistoricalStockPrices fetch that
\* returned normally is over, the batches it was handed, concatenated, are
\* one price bar per record of the pages fetched, in page-then-record order,
\* each with the constructor's ticker_id, and with at least one record the
\* loop ended without error; the pages fetched are the chain's pages when
\* upstream answered 200 or 429 only; one page of 3 records came as one batch
\* of 3.
C15_PriceBarsInPageOrder ==
    \A e \in Running :
        LET s == eng[e]
            raw == Flatten(s.results)
            all == ConcatBatches(s, Len(s.yielded))
        IN  (s.kind = "HistoricalStockPrices"
                /\ caller \in {"consumed", "consume_raised"}) =>
              /\ Len(all) = Len(raw)
              /\ \A i \in 1..Len(raw) : IsPriceBarOf(all[i], raw[i], s.ticker_id)
              /\ Len(raw) > 0 => caller = "consumed"
              /\ (\A i \in 1..Len(s.statuses) : s.statuses[i] \in {200, 429})
                    => s.results = ChainPages(e)
              /\ (Len(s.results) = 1 /\ Len(raw) = 3) =>
                    /\ Len(s.yielded) = 1
                    /\ Len(BatchRecords(s, s.yielded[1])) = 3

C15_Witness ==
    /\ caller = "consumed"
    /\ eng[0].kind = "HistoricalStockPrices"
    /\ Len(chain[0]) = 1
    /\ eng[0].statuses = <<200>>
    /\ Len(eng[0].yielded) = 1
    /\ Len(BatchRecords(eng[0], eng[0].yielded[1])) = 3
    /\ \A i \in 1..3 : BatchRecords(eng[0], eng[0].yielded[1])[i].ticker_id = 7

----------------------------------------------------------------------------
(* OptionsContracts.clean_data alone, loop turn by loop turn, over pages that
   two partitions answered *)

\* One turn of clean_data's loops.
CleanIter(e) ==
    /\ caller = "cleaning"
    /\ eng[e].clean_state = "running"
    /\ eng' = [eng EXCEPT ![e] = CleanStep(eng[e])]
    /\ caller' = CASE eng'[e].clean_state = "done" -> "cleaned"
                   [] eng'[e].clean_state = "raised" -> "clean_raised"
                   [] OTHER -> "cleaning"
    /\ UNCHANGED <<chain, now, default_payload, n429, game>>

\* The raw records n..m of a run whose i-th record names ticker tk[i]; cfi
\* marks the occurrence.
OptionPage(part, tk, n, m) ==
    [kind |-> "page", part |-> part, request_id |-> part, has_results |-> TRUE,
     results |-> [j \in 1..(m - n + 1) |->
                     RawRecord("OptionsContracts", tk[n + j - 1], n + j - 1)],
     next_url |-> 0]

InitClean ==
    /\ \E n \in 0..MaxCleanRecords :
          \E tk \in [1..n -> 1..MaxTickers], cut \in 0..n :
             eng = Only0([NewEngine("OptionsContracts", {}) EXCEPT
                            !.pc = "done",
                            !.results = <<OptionPage(1, tk, 1, cut),
                                          OptionPage(2, tk, cut + 1, n)>>,
                            !.clean_state = "running"])
    /\ chain = [e \in Engines |-> << >>]
    /\ now = 0
    /\ default_payload = {}
    /\ n429 = 0
    /\ game = NoGame
    /\ caller = "cleaning"

NextClean == CleanIter(0)

SpecClean == InitClean /\ [][NextClean]_vars

\* The raw records clean_data's loops have been through.
Processed(s) ==
    IF s.cursor.page > Len(s.results) THEN Flatten(s.results)
    ELSE Flatten(SubSeq(s.results, 1, s.cursor.page - 1))
            \o SubSeq(s.results[s.cursor.page].results, 1, s.cursor.rec)

\* C10: through OptionsContracts.clean_data, after every loop turn, no two
\* records of clean_results share an option_ticker, every ticker seen so far
\* has its record, and that record is the one made from the ticker's last
\* occurrence so far in page-then-record order.
C10_DedupLastWins ==
    \A e \in Running :
        LET s == eng[e]
            raw == Processed(s)
            cr == s.clean_results
        IN  s.kind = "OptionsContracts" /\ s.clean_state \in {"running", "done"} =>
              /\ \A i, j \in 1..Len(cr) :
                    cr[i].option_ticker = cr[j].option_ticker => i = j
              /\ {cr[i].option_ticker : i \in 1..Len(cr)}
                    = {raw[i].ticker : i \in 1..Len(raw)}
              /\ \A i \in 1..Len(cr) :
                    LET last == CHOOSE k \in 1..Len(raw) :
                                  /\ raw[k].ticker = cr[i].option_ticker
                                  /\ \A m \in (k + 1)..Len(raw) :
                                        raw[m].ticker # cr[i].option_ticker
                    IN  /\ cr[i].cfi = raw[last].cfi
                        /\ cr[i].underlying_ticker_id = s.ticker_id
                        /\ DOMAIN cr[i] = OptionKeys

C10_Witness ==
    /\ caller = "cleaned"
    /\ Len(eng[0].results[1].results) = 2
    /\ Len(eng[0].results[2].results) = 2
    /\ Len(eng[0].clean_results) = 2
    /\ \A i \in 1..2 : eng[0].clean_results[i].cfi > 2

----------------------------------------------------------------------------
(* OptionsContracts.fetch: query_data fans query_all out over a process pool *)

\* The base dates of the dispatching instance, as partition numbers
\* (months_hist + 1 of them).
Partitions(s) == 1..(s.months_hist + 1)

\* Lines 220-226, to the first await: one starmap task per base date.  A task
\* carries the bound method self.query_all, so its worker runs query_all on
\* an unpickled copy of the instance, with the task's url and payload.
Dispatch ==
    /\ caller = "fetching"
    /\ eng[0].pc = "dispatch"
    /\ eng' = [e \in Engines |->
                 IF e = 0 THEN [eng[0] EXCEPT !.pc = "collecting"]
                 ELSE IF e \in Partitions(eng[0])
                      THEN [eng[0] EXCEPT
                              !.pc = "entry", !.url = 1, !.payload_ref = "arg",
                              !.arg_payload = QueryPayload("OptionsContracts")]
                      ELSE eng[e]]
    /\ UNCHANGED <<chain, now, default_payload, n429, caller, game>>

\* What a task hands back to the pool: the return value of query_all.
TaskResult(s) == None

\* Lines 226-227: the next result of starmap, in task order, is appended to
\* the dispatching instance's results; after the last one the pool is left
\* and query_data returns.
Collect ==
    /\ eng[0].pc = "collecting"
    /\ eng[0].collected < eng[0].months_hist + 1
    /\ LET p == eng[0].collected + 1
       IN  /\ eng[p].pc = "done"
           /\ eng' = [eng EXCEPT
                 ![0].results = Append(@, TaskResult(eng[p])),
                 ![0].collected = p,
                 ![0].pc = IF p = eng[0].months_hist + 1 THEN "done" ELSE @]
    /\ UNCHANGED <<chain, now, default_payload, n429, caller, game>>

\* CollectError that takes a failed task as one that returned, and goes on
\* with the tasks left.
CollectError_SkipsFailed ==
    /\ eng[0].pc = "collecting"
    /\ eng[0].collected < eng[0].months_hist + 1
    /\ LET p == eng[0].collected + 1
       IN  /\ eng[p].pc = "failed"
           /\ eng' = [eng EXCEPT
                 ![0].results = Append(@, None),
                 ![0].collected = p,
                 ![0].pc = IF p = eng[0].months_hist + 1 THEN "done" ELSE @]
    /\ UNCHANGED <<chain, now, default_payload, n429, caller, game>>

\* Lines 225-226: the next task in order raised; the error leaves the loop and
\* the pool, which ends its workers, and query_data raises.
CollectError ==
    /\ eng[0].pc = "collecting"
    /\ eng[0].collected < eng[0].months_hist + 1
    /\ LET p == eng[0].collected + 1
       IN  /\ eng[p].pc = "failed"
           /\ eng' = [e \in Engines |->
                 IF e = 0 THEN [eng[0] EXCEPT !.pc = "failed", !.error = eng[p].error]
                 ELSE IF e \in Partitions(eng[0]) /\ ~Terminal(e)
                      THEN [eng[e] EXCEPT !.pc = "terminated"]
                      ELSE eng[e]]
    /\ UNCHANGED <<chain, now, default_payload, n429, caller, game>>

\* A worker's query_all chain.
WorkerStep(e) ==
    \/ Enter(e)
    \/ Issue(e)
    \/ Respond200(e, 0)
    \/ \E s \in Statuses : RespondOther(e, s, 0)

InitOptions ==
    /\ \E months_hist \in 0..(MaxPartitions - 1), n \in 1..MaxFetchPages :
          /\ eng = Only0([NewEngine("OptionsContracts", {}) EXCEPT
                            !.pc = "dispatch", !.months_hist = months_hist])
          /\ chain = [e \in Engines |->
                        IF e \in 1..(months_hist + 1)
                        THEN [k \in 1..n |->
                                PageBody(<<RawRecord("OptionsContracts", k, e)>>)]
                        ELSE << >>]
    /\ now = 0
    /\ default_payload = {}
    /\ n429 = 0
    /\ game = NoGame
    /\ caller = "fetching"

NextOptions ==
    \/ Dispatch
    \/ \E e \in Engines \ {0} : WorkerStep(e)
    \/ Collect
    \/ CollectError
    \/ FetchAfterQuery(0)

SpecOptions == InitOptions /\ [][NextOptions]_vars

\* C9, as claimed: once query_data has returned without error, the
\* dispatching instance's results holds pages only, and among them every page
\* upstream answered to every base date's chain.
C9_ResultsHoldEveryPage ==
    (eng[0].kind = "OptionsContracts" /\ eng[0].pc = "done") =>
        /\ \A j \in 1..Len(eng[0].results) : eng[0].results[j].kind = "page"
        /\ \A p \in Partitions(eng[0]) : \A i \in 1..Len(eng[p].results) :
              \E j \in 1..Len(eng[0].results) : eng[0].results[j] = eng[p].results[i]

\* The partitions whose running chain holds the default payload dict of
\* query_all (line 48) and has stored the credential in it (line 49).
DefaultDictHolders ==
    {p \in Partitions(eng[0]) :
        /\ eng[p].payload_ref = "default"
        /\ eng[p].pc \in {"request", "awaiting"}}

\* C24, as claimed: a partition's results, log and count come from its own
\* chain alone and the dispatching instance's are untouched by the workers;
\* and no two running partitions hold the same mutable object.
C24_NoSharedMutableState ==
    eng[0].pc \in {"collecting", "done", "failed"} =>
        /\ eng[0].query_count = 0 /\ eng[0].query_time_log = << >>
        /\ \A p \in Partitions(eng[0]) :
              /\ \A i \in 1..Len(eng[p].results) : eng[p].results[i] = PageOf(p, i)
              /\ Len(eng[p].query_time_log) <= Len(eng[p].results)
              /\ eng[p].query_count <= Len(eng[p].statuses)
        /\ Cardinality(DefaultDictHolders) <= 1

\* A partition whose query_all chain ended in an error.
FailedPartitions == {p \in Partitions(eng[0]) : eng[p].pc = "failed"}

\* C11: once OptionsContracts.fetch is over with some partition's chain
\* failed, fetch has raised, clean_data has not run, clean_results is empty
\* and clean_data_generator is the empty iterator that yielded nothing; and
\* while a partition has failed query_data does not return normally.
C11_PartitionFailureFailsFetch ==
    (eng[0].kind = "OptionsContracts" /\ eng[0].pc \notin {"dispatch", "unused"}
        /\ FailedPartitions # {}) =>
        /\ eng[0].pc # "done"
        /\ eng[0].clean_state = "idle"
        /\ eng[0].clean_results = << >>
        /\ eng[0].clean_data_generator = EmptyIterator
        /\ eng[0].yielded = << >>
        /\ caller \in {"fetching", "fetch_raised"}
        /\ caller = "fetch_raised" => eng[0].pc = "failed"

C11_Witness ==
    /\ caller = "fetch_raised"
    /\ eng[0].months_hist = 1
    /\ eng[0].collected = 1
    /\ eng[1].pc = "done"
    /\ eng[2].pc = "failed"
    /\ eng[0].error = 500

----------------------------------------------------------------------------
(* OptionsContracts._determine_base_dates alone.  Here the clock `now` counts
   calendar months: month m of year y is y * 12 + (m - 1). *)

FirstClockYear == 2023

YearOf(t) == t \div 12

MonthOf(t) == (t % 12) + 1

\* Line 209: the text "YYYY-MM" as <<year, tens digit, units digit>>; a month
\* of one digit gets the "0" in front.
YearMonthText(year, month) ==
    IF month >= 10 THEN <<year, month \div 10, month % 10>>
    ELSE <<year, 0, month>>

\* The year and month a "YYYY-MM" text names, as months since year 0.
ParseYearMonth(text) == text[1] * 12 + (text[2] * 10 + text[3] - 1)

\* Zeller's congruence for the first day of a month: 0 Saturday, 1 Sunday,
\* 2 Monday .. 6 Friday.
WeekdayOfFirst(year, month) ==
    LET m == IF month < 3 THEN month + 12 ELSE month
        y == IF month < 3 THEN year - 1 ELSE year
        K == y % 100
        J == y \div 100
    IN  (1 + ((13 * (m + 1)) \div 5) + K + (K \div 4) + (J \div 4) + 5 * J) % 7

\* utils.first_weekday_of_month for one "YYYY-MM" text: the date of the
\* month's first day that is not a Saturday or a Sunday.
first_weekday_of_month(text) ==
    LET t == ParseYearMonth(text)
        w == WeekdayOfFirst(YearOf(t), MonthOf(t))
    IN  [year |-> YearOf(t), month |-> MonthOf(t),
         day |-> IF w = 0 THEN 3 ELSE IF w = 1 THEN 2 ELSE 1]

\* LoopTurn that leaves the year alone when it steps from January to December.
LoopTurn_KeepsYear(s) ==
    IF s.counter <= s.months_hist
    THEN [s EXCEPT
            !.year_month_array = Append(@, YearMonthText(s.year, s.month)),
            !.month = IF s.month = 1 THEN 12 ELSE @ - 1,
            !.counter = @ + 1]
    ELSE [s EXCEPT !.pc = "map_dates"]

\* LoopTurn that stops one turn early (counter < months_hist).
LoopTurn_StopsEarly(s) ==
    IF s.counter < s.months_hist
    THEN [s EXCEPT
            !.year_month_array = Append(@, YearMonthText(s.year, s.month)),
            !.month = IF s.month = 1 THEN 12 ELSE @ - 1,
            !.year = IF s.month = 1 THEN @ - 1 ELSE @,
            !.counter = @ + 1]
    ELSE [s EXCEPT !.pc = "map_dates"]

\* Lines 207-216: the loop test and, when it holds, one turn of the loop.
LoopTurn(s) ==
    IF s.counter <= s.months_hist
    THEN [s EXCEPT
            !.year_month_array = Append(@, YearMonthText(s.year, s.month)),
            !.month = IF s.month = 1 THEN 12 ELSE @ - 1,
            !.year = IF s.month = 1 THEN @ - 1 ELSE @,
            !.counter = @ + 1]
    ELSE [s EXCEPT !.pc = "map_dates"]

\* Line 205: year = datetime.now().year.
ReadYear ==
    /\ eng[0].pc = "read_year"
    /\ eng' = [eng EXCEPT ![0].year = YearOf(now), ![0].pc = "read_month"]
    /\ UNCHANGED <<chain, now, default_payload, n429, caller, game>>

\* The clock passes into the next month between the two reads.
ClockTick ==
    /\ eng[0].pc = "read_month"
    /\ now = eng[0].called_at
    /\ now' = now + 1
    /\ UNCHANGED <<eng, chain, default_payload, n429, caller, game>>

\* Line 206: month = datetime.now().month.
ReadMonth ==
    /\ eng[0].pc = "read_month"
    /\ eng' = [eng EXCEPT ![0].month = MonthOf(now), ![0].pc = "loop"]
    /\ UNCHANGED <<chain, now, default_payload, n429, caller, game>>

Loop ==
    /\ eng[0].pc = "loop"
    /\ eng' = [eng EXCEPT ![0] = LoopTurn(eng[0])]
    /\ UNCHANGED <<chain, now, default_payload, n429, caller, game>>

\* Line 217: every year-month text becomes its first weekday.
MapDates ==
    /\ eng[0].pc = "map_dates"
    /\ eng' = [eng EXCEPT
          ![0].base_dates = [i \in 1..Len(eng[0].year_month_array) |->
                                first_weekday_of_month(eng[0].year_month_array[i])],
          ![0].pc = "returned"]
    /\ UNCHANGED <<chain, now, default_payload, n429, caller, game>>

InitDates ==
    /\ \E h \in 0..MaxMonthsHist,
          t \in (FirstClockYear * 12)..((FirstClockYear + ClockYears) * 12 - 1) :
          /\ now = t
          /\ eng = Only0([NewEngine("OptionsContracts", {}) EXCEPT
                            !.pc = "read_year", !.months_hist = h, !.called_at = t])
    /\ chain = [e \in Engines |-> << >>]
    /\ default_payload = {}
    /\ n429 = 0
    /\ game = NoGame
    /\ caller = "constructing"

NextDates == ReadYear \/ ClockTick \/ ReadMonth \/ Loop \/ MapDates

SpecDates == InitDates /\ [][NextDates]_vars

----------------------------------------------------------------------------
(* Properties of _determine_base_dates *)

\* The anchors built, as months since year 0.
Anchors(s) == [i \in 1..Len(s.year_month_array) |-> ParseYearMonth(s.year_month_array[i])]

\* months_hist + 1 anchors, each one calendar month before the one in front of
\* it (January is followed by December of the year before), every month in
\* 1..12 and written with two digits, and every base date the first weekday
\* of its anchor's month.
WalksBackByMonths(s) ==
    LET a == Anchors(s)
    IN  /\ Len(a) = s.months_hist + 1
        /\ Len(s.base_dates) = s.months_hist + 1
        /\ \A i \in 1..Len(a) :
              /\ s.year_month_array[i][2] * 10 + s.year_month_array[i][3] \in 1..12
              /\ s.year_month_array[i][2] \in 0..1 /\ s.year_month_array[i][3] \in 0..9
              /\ s.base_dates[i].year * 12 + s.base_dates[i].month - 1 = a[i]
              /\ s.base_dates[i].day \in 1..3
              /\ i > 1 => /\ a[i] = a[i - 1] - 1
                          /\ a[i] < a[i - 1]
                          /\ (MonthOf(a[i - 1]) = 1 =>
                                MonthOf(a[i]) = 12 /\ YearOf(a[i]) = YearOf(a[i - 1]) - 1)

\* C13, as claimed: the call returns months_hist + 1 anchors, the first the
\* month the clock shows (at the call or at the return), each next one
\* calendar month earlier, strictly decreasing, months in 1..12.
C13_AnchorsFromCurrentMonth ==
    eng[0].pc = "returned" =>
        /\ WalksBackByMonths(eng[0])
        /\ Anchors(eng[0])[1] \in {eng[0].called_at, now}

\* The same when the clock shows one month throughout the call.
C13_WhenClockStaysInMonth ==
    (eng[0].pc = "returned" /\ now = eng[0].called_at) =>
        /\ WalksBackByMonths(eng[0])
        /\ Anchors(eng[0])[1] = now

\* C26, as claimed: the first anchor of a call that returned is a year-month
\* the clock showed between the call and the return.
C26_FirstAnchorWasShown ==
    eng[0].pc = "returned" =>
        \E t \in eng[0].called_at..now : Anchors(eng[0])[1] = t

\* A call with months_hist = 13 while the clock shows February 2024.
ThirteenFromFebruary2024 ==
    /\ eng[0].pc = "returned"
    /\ eng[0].months_hist = 13
    /\ eng[0].called_at = now
    /\ YearOf(now) = 2024 /\ MonthOf(now) = 2

\* The steps from a January anchor to the December anchor behind it.
YearCrossings(s) ==
    {i \in 1..(Len(s.year_month_array) - 1) :
        /\ MonthOf(Anchors(s)[i]) = 1
        /\ MonthOf(Anchors(s)[i + 1]) = 12}

\* C14, as claimed: 13 months of history in February 2024 gives the 13
\* anchors January 2024 down to January 2023, crossing the year once.
C14_ThirteenAnchorsFromJanuary ==
    ThirteenFromFebruary2024 =>
        /\ Anchors(eng[0]) = [i \in 1..13 |-> 2024 * 12 - (i - 1)]
        /\ Cardinality(YearCrossings(eng[0])) = 1

\* C14, amended: 13 months of history in February 2024 gives the 14 anchors
\* February 2024 down to January 2023, "2024-02" first and "2023-01" last,
\* crossing from January to December of the year before exactly once.
C14_FourteenAnchorsFromFebruary ==
    ThirteenFromFebruary2024 =>
        /\ eng[0].year_month_array =
              [i \in 1..14 |-> IF i <= 2 THEN YearMonthText(2024, 3 - i)
                               ELSE YearMonthText(2023, 15 - i)]
        /\ Anchors(eng[0]) = [i \in 1..14 |-> 2024 * 12 + 1 - (i - 1)]
        /\ YearCrossings(eng[0]) = {2}

C14_Witness ==
    /\ ThirteenFromFebruary2024
    /\ Len(eng[0].base_dates) = 14
    /\ eng[0].year_month_array[1] = <<2024, 0, 2>>
    /\ eng[0].year_month_array[14] = <<2023, 0, 1>>

----------------------------------------------------------------------------
(* clean_data called again on the same instance, results unchanged *)

\* One call of clean_data by the instance's user.
CleanAgain(e) ==
    /\ caller \in {"cleaning", "cleaned_once"}
    /\ eng' = [eng EXCEPT ![e] = clean_data(eng[e])]
    /\ caller' = IF caller = "cleaning" THEN "cleaned_once" ELSE "cleaned_twice"
    /\ UNCHANGED <<chain, now, default_payload, n429, game>>

\* Page k as query_all stored it, with c records of the kind.
StoredPage(kind, k, c) ==
    [kind |-> "page", part |-> 0, request_id |-> k, has_results |-> TRUE,
     results |-> FetchPage(kind, k, c).results, next_url |-> 0]

InitReclean ==
    /\ \/ \E n \in 0..MaxCleanRecords :
             \E tk \in [1..n -> 1..MaxTickers], cut \in 0..n :
                eng = Only0([NewEngine("OptionsContracts", {}) EXCEPT
                               !.pc = "done",
                               !.results = <<OptionPage(1, tk, 1, cut),
                                             OptionPage(2, tk, cut + 1, n)>>])
       \/ \E kind \in {"StockMetaData", "HistoricalStockPrices"},
             n \in 1..MaxFetchPages :
             \E counts \in [1..n -> {0, MaxPageRecords}] :
                eng = Only0([NewEngine(kind, {}) EXCEPT
                               !.pc = "done",
                               !.results = [k \in 1..n |-> StoredPage(kind, k, counts[k])]])
    /\ chain = [e \in Engines |-> << >>]
    /\ now = 0
    /\ default_payload = {}
    /\ n429 = 0
    /\ game = NoGame
    /\ caller = "cleaning"

NextReclean == CleanAgain(0)

SpecReclean == InitReclean /\ [][NextReclean]_vars

\* clean_results after one call of clean_data on a new instance with s's pages.
OneCall(s) == clean_data([s EXCEPT !.clean_results = << >>]).clean_results

\* C16, as claimed: after the second call of clean_data over unchanged
\* results, clean_results is what one call produced, for every kind.
C16_CleanDataIdempotent ==
    \A e \in Running :
        caller = "cleaned_twice" => eng[e].clean_results = OneCall(eng[e])

\* The same for OptionsContracts alone, whose clean_data rebuilds clean_results
\* by option_ticker after every record.
C16_OptionsCleanDataIdempotent ==
    \A e \in Running :
        (caller = "cleaned_twice" /\ eng[e].kind = "OptionsContracts") =>
            eng[e].clean_results = OneCall(eng[e])

----------------------------------------------------------------------------
(* rl_agent.game_environment.GameEnvironment: reset and step.  Dates are the
   row numbers 0 .. rows - 1 of underlying_price_df; the contracts that
   qualify on a date (lines 349-355) are numbered 1 .. qualifying[date], and a
   contract's number is its ticker. *)

\* ACTIONS, by index (lines 36, 48, 253 and 295): 0 closes, 1 holds.
ACTION_LABELS == <<"CLOSE POSITION", "HOLD POSITION">>

actions_labels(a) == ACTION_LABELS[a + 1]

\* long_short_labels (line 46).
long_short_labels(x) == IF x = 0 THEN "LONG" ELSE "SHORT"

\* A float that is the quotient of two integers.
Ratio(n, d) == [num |-> n, den |-> d]

\* The Position dataclass (lines 24-30).
Position(orig_price, long_short, status, nom_return, pct_return) ==
    [orig_price |-> orig_price, long_short |-> long_short, status |-> status,
     nom_return |-> nom_return, pct_return |-> pct_return]

Prices == {1, MaxPrice}

\* __init__ (lines 55-71) followed by prepare_state_data, which loaded `rows`
\* dates with qualifying[d] qualifying contracts on date d.
NewGame(days_to_exp, num_positions, rows, qualifying) ==
    [pc |-> "made",
     start_days_to_exp |-> days_to_exp, days_to_exp |-> days_to_exp,
     num_positions |-> num_positions,
     rows |-> rows, qualifying |-> qualifying,
     ix |-> 0, opt_tkr_ix |-> << >>,
     opt_tkrs |-> << >>, game_date_index |-> << >>, game_current_date_ix |-> -1,
     game_positions |-> << >>, game_rewards |-> << >>, end |-> FALSE,
     current_state |-> << >>, raised |-> ""]

\* The set of a sequence's elements.
Elems(seq) == {seq[i] : i \in 1..Len(seq)}

\* Lines 180-185 of reset: without state data InvalidReset, else the day
\* counter is set back and the first try of _init_random_positions begins.
ResetBegin(g) ==
    IF g.rows = 0 THEN [g EXCEPT !.raised = "InvalidReset"]
    ELSE [g EXCEPT !.days_to_exp = g.start_days_to_exp, !.raised = "",
                   !.pc = "init_positions"]

\* Lines 346-361 with random.randint(0, len - days_to_exp) giving ix: an empty
\* range is a ValueError and row `rows` an IndexError, both leaving reset; a
\* date without qualifying contracts is EmptyInit, which reset catches to try
\* again (lines 186-198).
PickStart(g, ix) ==
    IF g.rows - g.days_to_exp < 0 THEN [g EXCEPT !.pc = "made", !.raised = "ValueError"]
    ELSE IF ix >= g.rows THEN [g EXCEPT !.pc = "made", !.raised = "IndexError"]
    ELSE IF g.qualifying[ix] = 0 THEN g
    ELSE [g EXCEPT !.ix = ix, !.opt_tkr_ix = << >>, !.pc = "pick_contracts"]

\* The values random.randint(0, len - days_to_exp) can give (line 346).
RandomStartRows(g) == 0..(g.rows - g.days_to_exp)

\* Lines 363-366: one turn of the loop that draws contract rows until
\* num_positions different ones are drawn; opt_ix is 0-based.
PickContract(g, opt_ix) ==
    IF opt_ix \in Elems(g.opt_tkr_ix) THEN g
    ELSE [g EXCEPT !.opt_tkr_ix = Append(@, opt_ix)]

\* The rows ix .. ix + days_to_exp of underlying_price_df that exist
\* (line 370: iloc[ix : ix + days_to_exp + 1]).
DateSlice(g) ==
    [i \in 1..(Min(g.ix + g.days_to_exp + 1, g.rows) - g.ix) |-> g.ix + i - 1]

\* Lines 368-374 and 199-224: the loop has its num_positions rows; the
\* tickers, the dates, the positions (all short, open, no returns), the empty
\* reward lists; price[t] is ticker t's closing price on the start date.
FinishReset(g, price) ==
    LET tkrs == [i \in 1..Len(g.opt_tkr_ix) |-> g.opt_tkr_ix[i] + 1]
    IN  [g EXCEPT
          !.opt_tkrs = tkrs,
          !.game_date_index = DateSlice(g),
          !.game_positions =
              [t \in Elems(tkrs) |-> Position(price[t], 1, "open", 0, Ratio(0, 1))],
          !.game_rewards = [t \in Elems(tkrs) |-> << >>],
          !.end = FALSE,
          !.game_current_date_ix = g.ix,
          !.current_state = price,
          !.pc = "started"]

RECURSIVE SumOver(_, _)
\* sum(actions.values()) over the tickers in S.
SumOver(f, S) ==
    IF S = {} THEN 0
    ELSE LET t == CHOOSE x \in S : TRUE IN f[t] + SumOver(f, S \ {t})

\* _calc_reward that lets a closed position go on earning (no status test).
RewardStep_IgnoresStatus(pos, action, old_price, new_price) ==
    IF actions_labels(action) = "CLOSE POSITION"
    THEN [reward |-> Ratio(0, 1),
          position |-> [pos EXCEPT !.status = "closed", !.nom_return = 0,
                                   !.pct_return = Ratio(0, 1)]]
    ELSE LET nom_reward == new_price - old_price
         IN  [reward |-> Ratio(0 - nom_reward, pos.orig_price),
              position |-> [pos EXCEPT
                 !.status = "open",
                 !.nom_return = @ - nom_reward,
                 !.pct_return = Ratio(pos.orig_price - new_price, pos.orig_price)]]

\* Lines 294-318 for one ticker: the reward appended and the position after.
RewardStep(pos, action, old_price, new_price) ==
    IF pos.status = "open"
    THEN IF actions_labels(action) = "CLOSE POSITION"
         THEN [reward |-> Ratio(0, 1),
               position |-> [pos EXCEPT !.status = "closed", !.nom_return = 0,
                                        !.pct_return = Ratio(0, 1)]]
         ELSE LET nom_reward == new_price - old_price
              IN  IF long_short_labels(pos.long_short) = "SHORT"
                  THEN [reward |-> Ratio(0 - nom_reward, pos.orig_price),
                        position |-> [pos EXCEPT
                           !.nom_return = @ - nom_reward,
                           !.pct_return =
                               Ratio(pos.orig_price - new_price, pos.orig_price)]]
                  ELSE [reward |-> Ratio(nom_reward, pos.orig_price),
                        position |-> [pos EXCEPT
                           !.nom_return = @ + nom_reward,
                           !.pct_return = Ratio(new_price, pos.orig_price)]]
    ELSE [reward |-> Ratio(0, 1), position |-> pos]

\* _calc_reward (lines 293-318) over every ticker of the game.
_calc_reward(g, actions, current_state, next_state) ==
    [g EXCEPT
      !.game_positions = [t \in DOMAIN @ |->
          RewardStep(@[t], actions[t], current_state[t], next_state[t]).position],
      !.game_rewards = [t \in DOMAIN @ |->
          Append(@[t], RewardStep(g.game_positions[t], actions[t],
                                  current_state[t], next_state[t]).reward)]]

\* step that tests for the end before it counts the day down.
step_EndsLate(g, actions, next_state) ==
    IF g.end THEN [g EXCEPT !.raised = "InvalidStep"]
    ELSE IF g.days_to_exp = 0 \/ SumOver(actions, DOMAIN actions) = 0
         THEN [g EXCEPT !.days_to_exp = @ - 1, !.end = TRUE, !.raised = "",
                        !.pc = "ended"]
    ELSE IF g.game_current_date_ix + 1 >= g.rows
         THEN [g EXCEPT !.days_to_exp = @ - 1, !.game_current_date_ix = @ + 1,
                        !.raised = "IndexError"]
    ELSE [_calc_reward(g, actions, g.current_state, next_state) EXCEPT
            !.days_to_exp = @ - 1, !.game_current_date_ix = @ + 1,
            !.current_state = next_state, !.raised = "", !.pc = "playing"]

\* step(actions, current_state) (lines 247-282), the caller passing the state
\* it was last handed; next_state[t] is ticker t's closing price on the next
\* date, its price of the day before when it did not trade (lines 269-270).
step(g, actions, next_state) ==
    IF g.end THEN [g EXCEPT !.raised = "InvalidStep"]
    ELSE IF g.days_to_exp - 1 = 0 \/ SumOver(actions, DOMAIN actions) = 0
         THEN [g EXCEPT !.days_to_exp = @ - 1, !.end = TRUE, !.raised = "",
                        !.pc = "ended"]
    ELSE IF g.game_current_date_ix + 1 >= g.rows
         THEN [g EXCEPT !.days_to_exp = @ - 1, !.game_current_date_ix = @ + 1,
                        !.raised = "IndexError"]
    ELSE [_calc_reward(g, actions, g.current_state, next_state) EXCEPT
            !.days_to_exp = @ - 1, !.game_current_date_ix = @ + 1,
            !.current_state = next_state, !.raised = "", !.pc = "playing"]

\* reset() is called.
Reset ==
    /\ game.pc \in {"made", "started", "playing", "ended"}
    /\ game' = ResetBegin(game)
    /\ UNCHANGED <<eng, chain, now, default_payload, n429, caller>>

\* _init_random_positions draws its start row.
StartRow ==
    /\ game.pc = "init_positions"
    /\ IF RandomStartRows(game) = {}
       THEN game' = PickStart(game, 0)
       ELSE \E ix \in RandomStartRows(game) : game' = PickStart(game, ix)
    /\ UNCHANGED <<eng, chain, now, default_payload, n429, caller>>

\* One turn of the loop of lines 363-366.
DrawContract ==
    /\ game.pc = "pick_contracts"
    /\ Len(game.opt_tkr_ix) < game.num_positions
    /\ \E opt_ix \in 0..(game.qualifying[game.ix] - 1) :
          game' = PickContract(game, opt_ix)
    /\ UNCHANGED <<eng, chain, now, default_payload, n429, caller>>

\* The closing price of contract t on the start date: odd contracts open at
\* 1, even ones at MaxPrice.
OpeningPrice(t) == IF t % 2 = 1 THEN 1 ELSE MaxPrice

\* The loop of lines 363-366 is left, and reset runs to its return.
PositionsDrawn ==
    /\ game.pc = "pick_contracts"
    /\ Len(game.opt_tkr_ix) >= game.num_positions
    /\ game' = FinishReset(game,
          [t \in {game.opt_tkr_ix[i] + 1 : i \in 1..Len(game.opt_tkr_ix)} |->
              OpeningPrice(t)])
    /\ UNCHANGED <<eng, chain, now, default_payload, n429, caller>>

\* The closing prices the next date may show: between two dates at most one
\* contract's price moves, every other contract keeps its price (it closed
\* unchanged, or did not trade and is backfilled at lines 269-270).
NextStates(current_state) ==
    {current_state} \cup
    {[current_state EXCEPT ![t] = p] : t \in DOMAIN current_state, p \in Prices}

\* step() is called with an action per ticker.
Step ==
    /\ game.pc \in {"started", "playing", "ended"}
    /\ \E actions \in [DOMAIN game.game_positions -> {0, 1}],
          next_state \in NextStates(game.current_state) :
          game' = step(game, actions, next_state)
    /\ UNCHANGED <<eng, chain, now, default_payload, n429, caller>>

\* The price tables the games are played on: the dates before empty_before
\* have no qualifying contract, every later date has the same count of them.
QualifyingTables(rows) ==
    {[r \in 0..(rows - 1) |-> IF r < empty_before THEN 0 ELSE count] :
        empty_before \in 0..rows, count \in 1..MaxContracts}

InitGame ==
    /\ \E rows \in 0..MaxRows, days_to_exp \in 1..MaxDays,
          num_positions \in 1..MaxPositions :
          \E qualifying \in QualifyingTables(rows) :
             game = NewGame(days_to_exp, num_positions, rows, qualifying)
    /\ eng = Only0(Unused)
    /\ chain = [e \in Engines |-> << >>]
    /\ now = 0
    /\ default_payload = {}
    /\ n429 = 0
    /\ caller = "playing"

NextGame == Reset \/ StartRow \/ DrawContract \/ PositionsDrawn \/ Step

SpecGame == InitGame /\ [][NextGame]_vars

\* random.randint gives every value of its range, so a loop that a draw can
\* leave is left; the caller may stop calling reset and step at any time.
SpecGameFair ==
    SpecGame /\ WF_vars(StartRow) /\ WF_vars(DrawContract) /\ WF_vars(PositionsDrawn)

(* ---- Properties of the game ---- *)

\* The transition is a call of step on a game that has not ended.
StepTaken ==
    /\ game.pc \in {"started", "playing"}
    /\ ~game.end
    /\ game'.pc \in {"started", "playing", "ended"}
    /\ game' # game

\* The transition is a call of step on a game that has ended.
StepAfterEnd ==
    /\ game.pc = "ended"
    /\ game'.pc = "ended"
    /\ game' # game

\* C27: step sets end exactly when, after counting days_to_exp down, it is 0
\* or the actions sum to 0; the ending step hands back the state it was
\* passed, appends no reward and changes no position; a step after the end
\* raises InvalidStep and changes nothing of the game.
C27_StepEndsExactlyWhen ==
    [][ /\ StepTaken =>
            /\ \A actions \in [DOMAIN game.game_positions -> {0, 1}] :
                  game' = step(game, actions, game'.current_state) =>
                     (game'.end <=> (\/ game.days_to_exp - 1 = 0
                                     \/ SumOver(actions, DOMAIN actions) = 0))
            /\ game'.days_to_exp = game.days_to_exp - 1
            /\ game'.end =>
                  /\ game'.current_state = game.current_state
                  /\ game'.game_rewards = game.game_rewards
                  /\ game'.game_positions = game.game_positions
                  /\ game'.game_current_date_ix = game.game_current_date_ix
        /\ StepAfterEnd =>
            /\ game'.raised = "InvalidStep"
            /\ game' = [game EXCEPT !.raised = "InvalidStep"] ]_vars

\* A game that ended on the actions, with days left, after a rewarded step,
\* and was then stepped again.
C27_Witness ==
    /\ game.pc = "ended"
    /\ game.end
    /\ game.raised = "InvalidStep"
    /\ game.days_to_exp > 0
    /\ \E t \in DOMAIN game.game_rewards : Len(game.game_rewards[t]) > 0

\* C28: the start row is at least days_to_exp rows before the last row, so
\* game_date_index has days_to_exp + 1 dates and game_current_date_ix stays
\* inside underlying_price_df through the game.
C28_StartRowLeavesRoom ==
    game.pc \in {"started", "playing", "ended"} =>
        /\ game.ix + game.start_days_to_exp <= game.rows - 1
        /\ Len(game.game_date_index) = game.start_days_to_exp + 1
        /\ game.game_current_date_ix \in 0..(game.rows - 1)

\* What reset leaves behind when it returns (lines 195-224).
ResetPostcondition ==
    /\ Len(game.opt_tkrs) = game.num_positions
    /\ \A i, j \in 1..Len(game.opt_tkrs) : i # j => game.opt_tkrs[i] # game.opt_tkrs[j]
    /\ DOMAIN game.game_positions = Elems(game.opt_tkrs)
    /\ \A t \in DOMAIN game.game_positions :
          /\ game.game_positions[t].status = "open"
          /\ game.game_positions[t].nom_return = 0
          /\ game.game_positions[t].pct_return.num = 0
          /\ game.game_rewards[t] = << >>
    /\ ~game.end
    /\ game.days_to_exp = game.start_days_to_exp

\* C29: with state data loaded, reset terminates and leaves num_positions
\* distinct tickers, open positions with zero returns, empty reward lists,
\* end = False and days_to_exp = start_days_to_exp, also on a start date with
\* fewer qualifying contracts than num_positions: it returns in the state
\* described, and the loop that draws the contracts always has enough
\* distinct contracts left to draw, so that it can be left.
C29_ResetTerminates ==
    /\ game.pc = "started" => ResetPostcondition
    /\ game.pc = "pick_contracts" =>
          game.num_positions - Len(game.opt_tkr_ix)
             <= Cardinality((0..(game.qualifying[game.ix] - 1)) \ Elems(game.opt_tkr_ix))

\* The same as a progress property: a reset that began returns.
C29_ResetReturns ==
    (game.pc \in {"init_positions", "pick_contracts"} /\ game.rows > 0)
        ~> (game.pc = "started")

\* The transition is a call of step that did not end the game.
NonEndingStep == StepTaken /\ ~game'.end /\ game'.raised = ""

\* Every ticker of the game has been rewarded the same number of times.
RewardListsAligned ==
    game.pc \in {"started", "playing", "ended"} =>
        \A t, u \in DOMAIN game.game_rewards :
            Len(game.game_rewards[t]) = Len(game.game_rewards[u])

\* C30: within a game a closed position stays closed with its nom_return and
\* pct_return as they are, every later non-ending step appends 0 to its
\* rewards, every non-ending step appends one reward to every ticker, and all
\* reward lists have the same length.
C30_ClosedStaysClosed ==
    /\ []RewardListsAligned
    /\ [][ /\ StepTaken \/ StepAfterEnd =>
               \A t \in DOMAIN game.game_positions :
                   game.game_positions[t].status = "closed" =>
                       game'.game_positions[t] = game.game_positions[t]
           /\ NonEndingStep =>
               \A t \in DOMAIN game.game_positions :
                   /\ Len(game'.game_rewards[t]) = Len(game.game_rewards[t]) + 1
                   /\ SubSeq(game'.game_rewards[t], 1, Len(game.game_rewards[t]))
                         = game.game_rewards[t]
                   /\ game.game_positions[t].status = "closed" =>
                         game'.game_rewards[t][Len(game'.game_rewards[t])].num = 0 ]_vars

\* A position closed on one step and rewarded 0 on a later one, next to a
\* position still open that has earned something.
C30_Witness ==
    /\ game.pc = "playing"
    /\ \E t, u \in DOMAIN game.game_positions :
          /\ game.game_positions[t].status = "closed"
          /\ game.game_positions[t].nom_return = 0
          /\ Len(game.game_rewards[t]) >= 2
          /\ game.game_positions[u].status = "open"
          /\ game.game_positions[u].nom_return # 0

====
